---- MODULE Spec2Model ----
(***************************************************************************)
(* Model of rust-rt-audio's src/main.rs: the main thread (argument         *)
(* parsing, host query, device listing, stream construction, play, the     *)
(* fixed sleep, scope exit) and the audio backend's callback thread (the   *)
(* data callback and the error callback built by build_stream).            *)
(*                                                                         *)
(* Option<T> values are sequences: None is <<>>, Some(x) is <<x>>.         *)
(***************************************************************************)
EXTENDS Integers, Sequences, FiniteSets, TLC

VARIABLES
    log_every,                \* args.log_every (u64)
    channels,                 \* args.ch, copied into config.channels (u16)
    pc,                       \* position of the main thread
    result,                   \* what main returned: "none" while running, "ok", "err"
    errMsg,                   \* which `?` / bail! produced the error
    default_out_device,       \* "unset" before line 36, then "None" or "Some"
    default_out_device_name,  \* Option<String>, line 38
    default_in_device_name,   \* Option<String>, line 39
    idx,                      \* number of devices the listing loop has consumed
    entry,                    \* Option of the device entry printed by the current iteration
    sample_format,            \* Option of the default output config's sample format, line 122
    streamState,              \* "Idle", "Open", "Running", "Closed"
    playCalls,                \* number of calls of stream.play()
    n,                        \* callback closure: invocation counter
    last_len,                 \* callback closure: last buffer length
    last_time,                \* callback closure: last Instant
    calls,                    \* number of data-callback invocations the backend made
    prevBuf,                  \* buffer length of the invocation before the latest (-1: none)
    curBuf,                   \* buffer length of the latest invocation (-1: none)
    warned,                   \* the latest invocation printed the buffer-size warning
    logged,                   \* Option of the [cb #..] line the latest invocation printed
    errs,                     \* number of "[stream error]" lines on stderr
    default_cfg,              \* Option of the default config of one direction, lines 41-46
    cfg,                      \* Option of the supported range of the current config line
    mark                      \* the mark printed on the current config line

mainVars == <<pc, result, errMsg, default_out_device, default_out_device_name,
              default_in_device_name, idx, entry, sample_format>>
argVars == <<log_every, channels>>
streamVars == <<streamState, playCalls>>
counters == <<n, last_len, last_time>>
outVars == <<calls, prevBuf, curBuf, warned, logged>>
matchVars == <<default_cfg, cfg, mark>>
vars == <<argVars, mainVars, streamVars, counters, outVars, errs, matchVars>>

\* ---------------------------------------------------------------- bounds
MaxLogEvery == 3
MaxCh == 2
MaxLen == 3
MaxTime == 1
MaxCalls == 4
MaxErrs == 2
MaxDevices == 2
MaxRate == 2

\* ---------------------------------------------------------------- values
None == <<>>
Some(x) == <<x>>

\* Names a device can report; "<unknown>" is also the placeholder of line 62.
Names == {"Speakers", "Mic", "<unknown>"}
\* Result<String, _> of Device::name(): Some(name) for Ok, None for Err.
NameResults == {Some(s) : s \in Names} \cup {None}
Formats == {"F32", "I16"}
ChannelCounts == 1..2
\* SupportedStreamConfigRange, reduced to what match_config reads.
ConfigRanges == [channels : ChannelCounts, sample_format : Formats,
                 min_sample_rate : 0..MaxRate, max_sample_rate : 0..MaxRate]
\* SupportedStreamConfig, reduced to what match_config reads.
Configs == [channels : ChannelCounts, sample_format : Formats,
            sample_rate : 0..MaxRate]
Exits == {"exit_ok", "exit_err"}

\* ------------------------------------------------------ pure functions
\* lines 38-39: default_device.as_ref().and_then(|d| d.name().ok())
DefaultName(dev, nameRes) == IF dev = "None" THEN None ELSE nameRes

\* line 62: device.name().unwrap_or_else(|_| "<unknown>".into())
DisplayName(nameRes) == IF nameRes = None THEN "<unknown>" ELSE nameRes[1]

\* lines 66-71
Kind(is_input, is_output) ==
    IF is_input /\ is_output THEN "input/output"
    ELSE IF is_input THEN "input"
    ELSE IF is_output THEN "output"
    ELSE "unknown"

DefMarkInputFirst(name, outName, inName) ==
    IF Some(name) = inName THEN " [default input]"
    ELSE IF Some(name) = outName THEN " [default output]"
    ELSE ""

\* lines 73-79
DefMark(name, outName, inName) ==
    IF Some(name) = outName THEN " [default output]"
    ELSE IF Some(name) = inName THEN " [default input]"
    ELSE ""

match_config_exclusive_max(range, def) ==
    /\ range.channels = def.channels
    /\ range.sample_format = def.sample_format
    /\ def.sample_rate >= range.min_sample_rate
    /\ def.sample_rate < range.max_sample_rate

\* lines 162-167
match_config(range, def) ==
    /\ range.channels = def.channels
    /\ range.sample_format = def.sample_format
    /\ def.sample_rate >= range.min_sample_rate
    /\ def.sample_rate <= range.max_sample_rate

\* lines 86-90: default_cfg.as_ref().filter(|def| match_config(&cfg, def))
\*              .map(|_| " [default]").unwrap_or("")
CfgMark(range, defOpt) ==
    IF defOpt # None /\ match_config(range, defOpt[1]) THEN " [default]" ELSE ""

ShouldWarnAnyChange(len, last) == len # last

\* line 194
ShouldWarn(len, last) == len # last /\ last # 0

ShouldLogOffByOne(count, every) == count % every = 1 % every

\* line 202
ShouldLog(count, every) == count % every = 0

FramesNoDivision(len, ch) == len

\* lines 203-204
Frames(len, ch) == IF ch > 0 THEN len \div ch ELSE len

SupportedAnyFormat(fmt) == fmt # None

\* lines 128-135: the only arm of the match that builds a stream is F32.
Supported(fmt) == fmt = Some("F32")

DroppedPauses(s) == IF s = "Running" THEN "Open" ELSE IF s = "Open" THEN "Closed" ELSE s

\* Scope exit of main: a stream handle that exists is dropped, which closes it.
Dropped(s) == IF s \in {"Open", "Running"} THEN "Closed" ELSE s

\* ------------------------------------------------------------------ Init
\* The state after Args::parse() (line 32). The counters of the callback
\* closure do not exist yet; they are shown with the values build_stream
\* gives them, time being measured from the Instant::now() of line 178.
Init ==
    /\ log_every \in 0..MaxLogEvery
    /\ channels \in 0..MaxCh
    /\ pc = "args"
    /\ result = "none"
    /\ errMsg = ""
    /\ default_out_device = "unset"
    /\ default_out_device_name = None
    /\ default_in_device_name = None
    /\ idx = 0
    /\ entry = None
    /\ sample_format = None
    /\ streamState = "Idle"
    /\ playCalls = 0
    /\ n = 0
    /\ last_len = 0
    /\ last_time = 0
    /\ calls = 0
    /\ prevBuf = -1
    /\ curBuf = -1
    /\ warned = FALSE
    /\ logged = None
    /\ errs = 0
    /\ default_cfg = None
    /\ cfg = None
    /\ mark = ""

\* main returns Err(msg): every local is dropped, the stream handle included.
Fail(msg) ==
    /\ pc' = "exit_err"
    /\ result' = "err"
    /\ errMsg' = msg
    /\ entry' = None
    /\ streamState' = Dropped(streamState)

\* ----------------------------------------------------------- main thread
\* lines 34-59: host.devices()?, the default devices and their names. The
\* default configs of lines 41-46 are read only by the config lines of the
\* listing; MatchInit and ListCfg model them.
HostQuery ==
    /\ pc = "args"
    /\ \/ /\ Fail("devices")
          /\ UNCHANGED <<default_out_device, default_out_device_name,
                         default_in_device_name>>
       \/ \E outDev \in {"None", "Some"}, inDev \in {"None", "Some"},
             outName \in NameResults, inName \in NameResults :
             /\ default_out_device' = outDev
             /\ default_out_device_name' = DefaultName(outDev, outName)
             /\ default_in_device_name' = DefaultName(inDev, inName)
             /\ pc' = "listing"
             /\ UNCHANGED <<result, errMsg, entry, streamState>>
    /\ UNCHANGED <<argVars, idx, sample_format, playCalls, counters, outVars,
                   errs, matchVars>>

\* lines 61-81: one iteration of the listing loop, up to the device's header
\* line. (The config lines of lines 83-109 are modelled by ListCfg.)
ListDevice ==
    /\ pc = "listing"
    /\ idx < MaxDevices
    /\ \E nameRes \in NameResults, is_input \in BOOLEAN, is_output \in BOOLEAN :
          LET name == DisplayName(nameRes) IN
          entry' = Some([i |-> idx, name |-> name,
                         kind |-> Kind(is_input, is_output),
                         def_mark |-> DefMark(name, default_out_device_name,
                                              default_in_device_name)])
    /\ idx' = idx + 1
    /\ UNCHANGED <<argVars, pc, result, errMsg, default_out_device,
                   default_out_device_name, default_in_device_name,
                   sample_format, streamVars, counters, outVars, errs, matchVars>>

\* lines 112-120: the device iterator is exhausted; the loop's locals are gone
\* and the names of the default devices are not used again.
EndListing ==
    /\ pc = "listing"
    /\ pc' = "select"
    /\ entry' = None
    /\ default_out_device_name' = None
    /\ default_in_device_name' = None
    /\ UNCHANGED <<argVars, result, errMsg, default_out_device, idx,
                   sample_format, streamVars, counters, outVars, errs, matchVars>>

\* lines 122-126: ok_or_else(No default output device)?, default_output_config()?
SelectFormat ==
    /\ pc = "select"
    /\ IF default_out_device = "None"
          THEN /\ Fail("No default output device")
               /\ UNCHANGED sample_format
          ELSE \/ /\ Fail("default_output_config")
                  /\ UNCHANGED sample_format
               \/ \E f \in Formats :
                     /\ sample_format' = Some(f)
                     /\ pc' = "build"
                     /\ UNCHANGED <<result, errMsg, entry, streamState>>
    /\ UNCHANGED <<argVars, default_out_device, default_out_device_name,
                   default_in_device_name, idx, playCalls, counters, outVars,
                   errs, matchVars>>

\* lines 128-135 with build_stream, lines 169-216: the counters are created
\* (lines 178-180) and moved into the data callback; build_output_stream(..)?
BuildStream ==
    /\ pc = "build"
    /\ IF Supported(sample_format)
          THEN /\ n' = 0
               /\ last_len' = 0
               /\ last_time' = 0
               /\ \/ /\ pc' = "play"
                     /\ streamState' = "Open"
                     /\ UNCHANGED <<result, errMsg, entry>>
                  \/ Fail("build_output_stream")
          ELSE /\ Fail("Unsupported sample format")
               /\ UNCHANGED counters
    /\ UNCHANGED <<argVars, default_out_device, default_out_device_name,
                   default_in_device_name, idx, sample_format, playCalls,
                   outVars, errs, matchVars>>

\* line 137: stream.play()?
Play ==
    /\ pc = "play"
    /\ playCalls' = playCalls + 1
    /\ \/ /\ pc' = "sleep"
          /\ streamState' = "Running"
          /\ UNCHANGED <<result, errMsg, entry>>
       \/ Fail("play")
    /\ UNCHANGED <<argVars, default_out_device, default_out_device_name,
                   default_in_device_name, idx, sample_format, counters,
                   outVars, errs, matchVars>>

SleepDoneAfterCallback ==
    /\ pc = "sleep"
    /\ calls > 0
    /\ pc' = "exit_ok"
    /\ result' = "ok"
    /\ streamState' = Dropped(streamState)
    /\ UNCHANGED <<argVars, errMsg, default_out_device, default_out_device_name,
                   default_in_device_name, idx, entry, sample_format, playCalls,
                   counters, outVars, errs, matchVars>>

\* lines 138-146: thread::sleep(3s) is over, the two lines are printed, main
\* returns Ok(()) and `stream` goes out of scope.
SleepDone ==
    /\ pc = "sleep"
    /\ pc' = "exit_ok"
    /\ result' = "ok"
    /\ streamState' = Dropped(streamState)
    /\ UNCHANGED <<argVars, errMsg, default_out_device, default_out_device_name,
                   default_in_device_name, idx, entry, sample_format, playCalls,
                   counters, outVars, errs, matchVars>>

\* ------------------------------------------------------- callback thread
\* lines 186-211: one invocation of the data callback with a buffer of `len`
\* samples at instant `now` (Instant is monotonic). n is a u64; MaxCalls keeps
\* it far below 2^64, which no run of three seconds reaches either.
DataCallback ==
    /\ streamState = "Running"
    /\ calls < MaxCalls
    /\ \E len \in 0..MaxLen, now \in last_time..MaxTime :
          /\ calls' = calls + 1
          /\ prevBuf' = curBuf
          /\ curBuf' = len
          /\ IF log_every > 0
                THEN /\ n' = n + 1
                     /\ last_time' = now
                     /\ warned' = ShouldWarn(len, last_len)
                     /\ last_len' = len
                     /\ logged' = IF ShouldLog(n + 1, log_every)
                                     THEN Some([count |-> n + 1,
                                                frames |-> Frames(len, channels),
                                                samples |-> len,
                                                dt |-> now - last_time])
                                     ELSE None
                ELSE /\ warned' = FALSE
                     /\ logged' = None
                     /\ UNCHANGED counters
    /\ UNCHANGED <<argVars, mainVars, streamVars, errs, matchVars>>

ErrFnStopsStream ==
    /\ streamState = "Running"
    /\ errs < MaxErrs
    /\ errs' = errs + 1
    /\ streamState' = "Closed"
    /\ UNCHANGED <<argVars, mainVars, playCalls, counters, outVars, matchVars>>

ErrFnResetsCounters ==
    /\ streamState = "Running"
    /\ errs < MaxErrs
    /\ errs' = errs + 1
    /\ n' = 0
    /\ last_len' = 0
    /\ UNCHANGED <<argVars, mainVars, streamVars, last_time, outVars, matchVars>>

\* line 177: err_fn prints one line to stderr.
ErrFn ==
    /\ streamState = "Running"
    /\ errs < MaxErrs
    /\ errs' = errs + 1
    /\ UNCHANGED <<argVars, mainVars, streamVars, counters, outVars, matchVars>>

MainStep == HostQuery \/ ListDevice \/ EndListing \/ SelectFormat \/ BuildStream
            \/ Play \/ SleepDone

Next == HostQuery \/ ListDevice \/ EndListing \/ SelectFormat \/ BuildStream
        \/ Play \/ SleepDone \/ DataCallback \/ ErrFn

Spec == Init /\ [][Next]_vars

\* The main thread is scheduled by the operating system and thread::sleep
\* returns; the backend's callbacks are under no obligation to happen.
FairSpec == Init /\ [][Next]_vars /\ WF_vars(MainStep)

\* --------------------------------------------------- the config listing
\* The main thread inside the listing loop (lines 61-110), with the default
\* config of the direction being listed as lines 41-46 obtained it: None when
\* there is no default device or default_*_config() failed.
MatchInit ==
    /\ log_every \in 0..MaxLogEvery
    /\ channels \in 0..MaxCh
    /\ pc = "listing"
    /\ result = "none"
    /\ errMsg = ""
    /\ default_out_device \in {"None", "Some"}
    /\ default_out_device_name = None
    /\ default_in_device_name = None
    /\ idx = 0
    /\ entry = None
    /\ sample_format = None
    /\ streamState = "Idle"
    /\ playCalls = 0
    /\ n = 0
    /\ last_len = 0
    /\ last_time = 0
    /\ calls = 0
    /\ prevBuf = -1
    /\ curBuf = -1
    /\ warned = FALSE
    /\ logged = None
    /\ errs = 0
    /\ default_cfg \in IF default_out_device = "None" THEN {None}
                       ELSE {None} \cup {Some(c) : c \in Configs}
    /\ cfg = None
    /\ mark = ""

\* lines 85-92 (and 99-106): one supported config range is printed with its mark.
ListCfg ==
    /\ pc = "listing"
    /\ \E range \in ConfigRanges :
          /\ cfg' = Some(range)
          /\ mark' = CfgMark(range, default_cfg)
    /\ UNCHANGED <<argVars, mainVars, streamVars, counters, outVars, errs,
                   default_cfg>>

MatchNext == ListCfg

MatchSpec == MatchInit /\ [][MatchNext]_vars

\* ---------------------------------------------------------------- claims

\* C1: for every log_every (0 included) and every sequence of invocations,
\* the latest invocation printed the "buffer size changed" warning exactly
\* when its buffer length differs from the length the previous invocation
\* recorded and that recorded length is not 0. The recorded length is the
\* previous invocation's buffer length when the callback records
\* (log_every >= 1) and the initial 0 when nothing was recorded (first
\* invocation, or log_every = 0). The first invocation never warns.
C1_WarningExactlyOnRecordedChange ==
    calls >= 1 =>
        LET recorded == IF log_every = 0 \/ calls = 1 THEN 0 ELSE prevBuf IN
        /\ warned <=> (curBuf # recorded /\ recorded # 0)
        /\ (calls = 1 => ~warned)

C1_Witness == calls >= 2 /\ warned /\ prevBuf # curBuf

\* C2: with count the 1-based number of the invocation, the latest invocation
\* printed a "[cb #count]" line iff log_every >= 1 and count % log_every = 0;
\* with log_every = 0 no invocation prints one.
C2_LogExactlyEveryNth ==
    calls >= 1 =>
        /\ (logged # None) <=> (log_every >= 1 /\ calls % log_every = 0)
        /\ (logged # None => logged[1].count = calls)

C2_Witness == log_every = 2 /\ calls = 4 /\ logged # None

\* C3: the mark of a config line shows match_config's result: it is true iff
\* the channel counts are equal, the sample formats are equal and the default
\* rate lies in [min_sample_rate, max_sample_rate], both ends included.
C3_MatchConfigIffInRange ==
    (cfg # None /\ default_cfg # None) =>
        LET r == cfg[1]
            d == default_cfg[1]
        IN  (mark = " [default]") <=>
                /\ r.channels = d.channels
                /\ r.sample_format = d.sample_format
                /\ d.sample_rate \in r.min_sample_rate..r.max_sample_rate

C3_Witness ==
    /\ cfg # None
    /\ default_cfg # None
    /\ mark = " [default]"
    /\ cfg[1].min_sample_rate < cfg[1].max_sample_rate
    /\ default_cfg[1].sample_rate = cfg[1].max_sample_rate

\* C4: a diagnostic line for a buffer of length L on a stream with C channels
\* reports frames = L / C (integer quotient) when C > 0, frames = L when
\* C = 0, and samples = L.
C4_FramesPerCallback ==
    logged # None =>
        LET r == logged[1] IN
        /\ r.samples = curBuf
        /\ IF channels > 0
              THEN /\ r.frames * channels <= curBuf
                   /\ curBuf < (r.frames + 1) * channels
              ELSE r.frames = curBuf

C4_Witness ==
    /\ logged # None
    /\ channels = 2
    /\ curBuf = 3
    /\ logged[1].frames = 1

\* C5: with no default output device, a default sample format other than F32,
\* or a failed stream construction, main ends with an error, play is never
\* called, the stream never leaves Idle and no data callback runs; a missing
\* default output device lets the listing run and is fatal only at line 124.
C5_FatalBeforeStart ==
    LET NoDefaultOut == default_out_device = "None"
        BadFormat == sample_format # None /\ sample_format # Some("F32")
        BuildFailed == errMsg = "build_output_stream"
    IN  /\ (NoDefaultOut \/ BadFormat \/ BuildFailed) =>
               /\ playCalls = 0
               /\ calls = 0
               /\ streamState = "Idle"
               /\ pc # "exit_ok"
               /\ (pc \in Exits => result = "err")
        /\ NoDefaultOut => pc \in {"listing", "select", "exit_err"}
        /\ BadFormat => pc \in {"build", "exit_err"}
        /\ BuildFailed => pc = "exit_err"
        /\ (pc = "listing" => result = "none")
        /\ (errMsg = "No default output device" => NoDefaultOut /\ pc = "exit_err")

C5_Witness ==
    /\ pc = "exit_err"
    /\ errMsg = "Unsupported sample format"
    /\ sample_format = Some("I16")

\* C6: the stream only moves Idle -> Open (build_stream succeeded) -> Running
\* (the one call of play) -> Closed (main returns and drops the handle); play
\* is called at most once and only on an Open stream; Closed is final.
C6_LifecycleForwardOnly ==
    [][/\ (streamState' # streamState =>
             \/ /\ streamState = "Idle" /\ streamState' = "Open"
                /\ pc = "build" /\ pc' = "play"
             \/ /\ streamState = "Open" /\ streamState' = "Running"
                /\ pc = "play" /\ pc' = "sleep"
             \/ /\ streamState \in {"Open", "Running"} /\ streamState' = "Closed"
                /\ pc \notin Exits /\ pc' \in Exits)
       /\ (playCalls' # playCalls =>
             playCalls = 0 /\ playCalls' = 1 /\ streamState = "Open")
       /\ (pc' \in Exits => streamState' \in {"Idle", "Closed"})]_vars

C6_Witness == streamState = "Closed" /\ playCalls = 1 /\ result = "ok"

\* C7: an error callback prints one line and changes nothing else: the stream
\* stays Running, the counters keep their values, the data callback can still
\* run, and main leaves its sleep only by returning success.
C7_RuntimeErrorNonFatal ==
    /\ [][/\ (errs' # errs =>
                /\ errs' = errs + 1
                /\ streamState = "Running" /\ streamState' = "Running"
                /\ counters' = counters
                /\ outVars' = outVars
                /\ mainVars' = mainVars)
          /\ (pc = "sleep" /\ pc' # pc => pc' = "exit_ok" /\ result' = "ok")]_vars
    /\ []((errs > 0 /\ pc = "sleep" /\ calls < MaxCalls) => ENABLED DataCallback)

C7_Witness == errs >= 2 /\ n >= 2 /\ result = "ok"

\* C8: every run of main terminates, with the stream not left open; a
\* callback neither moves the main thread nor changes the stream's state, and
\* the sleep ends whether or not any callback was delivered.
C8_MainTerminates ==
    /\ <>(pc \in Exits)
    /\ [][(calls' # calls \/ errs' # errs) =>
             (pc' = pc /\ streamState' = streamState)]_vars
    /\ [](pc \in Exits => streamState \in {"Idle", "Closed"})

C8_Witness == pc = "exit_ok" /\ streamState = "Closed" /\ calls = 0 /\ errs = 0

\* C9: n, last_len and last_time change only in a data-callback invocation,
\* which is one invocation at a time: no main-thread step and no error
\* callback changes them.
C9_CountersOnlyInDataCallback ==
    [][counters' # counters =>
          /\ calls' = calls + 1
          /\ n' = n + 1
          /\ last_len' = curBuf'
          /\ mainVars' = mainVars
          /\ streamVars' = streamVars
          /\ errs' = errs]_vars

C9_Witness == n >= 2 /\ last_len > 0 /\ errs >= 1 /\ pc = "exit_ok"

\* C10: a device entry carries at most one default marker: "[default output]"
\* iff its name equals the default output device's name, "[default input]" iff
\* its name equals the default input device's name and not the default output
\* device's, and none iff it matches neither.
C10_DefaultMarker ==
    entry # None =>
        LET e == entry[1]
            isOut == Some(e.name) = default_out_device_name
            isIn == Some(e.name) = default_in_device_name
        IN  /\ e.def_mark \in {" [default output]", " [default input]", ""}
            /\ (e.def_mark = " [default output]") <=> isOut
            /\ (e.def_mark = " [default input]") <=> (isIn /\ ~isOut)
            /\ (e.def_mark = "") <=> (~isIn /\ ~isOut)

C10_Witness ==
    /\ entry # None
    /\ entry[1].def_mark = " [default output]"
    /\ default_in_device_name = default_out_device_name

====
